---- MODULE Spec2Model ----
(***************************************************************************)
(* A model of the ontology graph engine of onto_vae/utils.py:              *)
(* reverse_graph, create_binary_matrix, trim_DAG_bottom and trim_DAG_top.  *)
(*                                                                         *)
(* A Python dict is a sequence of entries [k |-> key, v |-> value] in      *)
(* insertion order; a Python list is a sequence.                           *)
(***************************************************************************)
EXTENDS Integers, Sequences, FiniteSets, TLC

VARIABLES
    fn,             \* the function being run
    pc,             \* position in that function
    err,            \* the exception raised ("none" when none)
    DAG,            \* the caller's DAG (trim_DAG_*)
    DAG_before,     \* history: the caller's DAG when the call started
    all_terms,      \* argument all_terms
    trim_terms,     \* the elements of trim_terms the for loop has taken so far
    term_term_dict, \* local of trim_DAG_*: entries refer to the lists of DAG
    term_gene_dict, \* local of trim_DAG_*: entries refer to the lists of DAG
    term_dict_rev,  \* local of trim_DAG_*
    gene_dict_rev,  \* local of trim_DAG_*
    gene_before,    \* history: gene_dict_rev before the last trim_term_* call
    term_dict,      \* the value returned by trim_DAG_*
    graph,          \* argument of reverse_graph
    reverse,        \* reverse_graph(graph)
    reverse2,       \* reverse_graph(reverse_graph(graph))
    depth,          \* argument depth of create_binary_matrix: rows [ID, depth]
    dag,            \* argument dag of create_binary_matrix
    childnum,       \* argument childnum
    parentnum,      \* argument parentnum
    df              \* the data frame returned by create_binary_matrix

VARIABLES
    gd_dag,         \* argument dag of get_descendants (parent -> children)
    gd_term,        \* argument term of get_descendants
    descendants,    \* local descendants of get_descendants, returned at the end
    queue,          \* local queue of get_descendants
    visits,         \* history: the nodes get_descendants has popped so far
    dg_dag,         \* argument dag of get_descendant_genes (term -> genes)
    dg_descendants, \* argument descendants of get_descendant_genes
    genes,          \* the list get_descendant_genes returns
    fp_graph,       \* argument graph of find_all_paths
    start,          \* argument start of find_all_paths
    end,            \* argument end of find_all_paths
    paths,          \* the list find_all_paths returns
    cls,            \* the class being constructed (OntoVAE, OntoEncVAE)
    ontobj_keys,    \* the keys of ontobj.genes, ontobj.masks and ontobj.data
    top_thresh,     \* argument top_thresh of __init__
    bottom_thresh,  \* argument bottom_thresh of __init__
    attrs           \* the attributes of self that __init__ has set so far

VARIABLES
    model_cls,      \* the class whose train_model runs (OntoVAE, OntoEncVAE, VAE)
    epochs,         \* argument epochs of train_model
    epoch,          \* the number of epochs completed
    val_loss_min,   \* local val_loss_min of train_model
    losses,         \* history: what val_round returned, epoch by epoch
    saves,          \* history: the epochs in which torch.save was called
    checkpoint      \* the file at modelpath: empty, or the dict last saved

descVars  == <<gd_dag, gd_term, descendants, queue, visits>>
genesVars == <<dg_dag, dg_descendants, genes>>
pathVars  == <<fp_graph, start, end, paths>>
ctorVars  == <<cls, ontobj_keys, top_thresh, bottom_thresh, attrs>>
trainVars == <<model_cls, epochs, epoch, val_loss_min, losses, saves, checkpoint>>
moreVars  == <<descVars, genesVars, pathVars, ctorVars, trainVars>>

vars == <<fn, pc, err, DAG, DAG_before, all_terms, trim_terms, term_term_dict,
          term_gene_dict, term_dict_rev, gene_dict_rev, gene_before, term_dict,
          graph, reverse, reverse2, depth, dag, childnum, parentnum, df,
          moreVars>>

trimVars == <<DAG, DAG_before, all_terms, trim_terms, term_term_dict,
              term_gene_dict, term_dict_rev, gene_dict_rev, gene_before,
              term_dict>>
revVars  == <<graph, reverse, reverse2>>
maskVars == <<depth, dag, childnum, parentnum, df>>

(***************************************************************************)
(* Bounds of the model.                                                    *)
(***************************************************************************)
NumTerms == 3   \* ontology terms T1, T2, ...
NumGenes == 2   \* genes gene1, gene2, ...
MaxEdges == 4   \* edges of a base DAG
MaxTrim  == 2   \* length of trim_terms
MaxGraphEdges == 3 \* insertions that build an argument of reverse_graph
NumIds == 3     \* IDs of a depth table (create_binary_matrix)
MaxMaskEdges == 2 \* edges of the dag given to create_binary_matrix
MaxDepth == 1   \* depth levels 0..MaxDepth
MaxDescEdges == 3 \* edges of the mapping given to get_descendants, find_all_paths
MaxGeneEdges == 2 \* annotations of the mapping given to get_descendant_genes
MaxDescLen == 2 \* length of the list given to get_descendant_genes
NumThresh == 3  \* threshold values 1..NumThresh a constructor is given
MaxVariants == 2 \* trimmed variants an ontology object holds
MaxVisits == 6  \* nodes get_descendants pops before the model stops following it
MaxEpochs == 3  \* argument epochs of train_model is in 0..MaxEpochs
NumLoss == 3    \* finite validation losses 1..NumLoss

TermIds == <<"T1", "T2", "T3", "T4", "T5">>
GeneIds == <<"gene1", "gene2", "gene3", "gene4">>
Terms == {TermIds[i] : i \in 1..NumTerms}
Genes == {GeneIds[i] : i \in 1..NumGenes}
Nodes == Terms \cup Genes

\* position of a node in the total order T1 < T2 < ... < gene1 < gene2 < ...
Idx(n) == IF \E i \in 1..Len(TermIds) : TermIds[i] = n
          THEN CHOOSE i \in 1..Len(TermIds) : TermIds[i] = n
          ELSE Len(TermIds) + (CHOOSE i \in 1..Len(GeneIds) : GeneIds[i] = n)

(***************************************************************************)
(* Python dicts and lists.                                                 *)
(***************************************************************************)
Range(s) == {s[i] : i \in DOMAIN s}

Keys(d) == {d[i].k : i \in DOMAIN d}

Has(d, key) == \E i \in DOMAIN d : d[i].k = key

\* d[key], for a key of d
Get(d, key) == d[CHOOSE i \in DOMAIN d : d[i].k = key].v

\* d[key] = val: an existing key keeps its place, a new key goes last
Put(d, key, val) ==
    IF Has(d, key)
    THEN [i \in DOMAIN d |-> IF d[i].k = key THEN [k |-> key, v |-> val] ELSE d[i]]
    ELSE Append(d, [k |-> key, v |-> val])

\* del d[key]
Del(d, key) == SelectSeq(d, LAMBDA e : e.k # key)

\* d.update(other)
RECURSIVE Update(_, _)
Update(d, other) ==
    IF other = <<>> THEN d
    ELSE Update(Put(d, Head(other).k, Head(other).v), Tail(other))

\* list.remove(x): drops the first occurrence of x
RECURSIVE Remove(_, _)
Remove(s, x) ==
    IF s = <<>> THEN <<>>
    ELSE IF Head(s) = x THEN Tail(s)
    ELSE <<Head(s)>> \o Remove(Tail(s), x)

\* the (key, element) pairs of a dict of lists
EdgeSet(d) == UNION {{<<d[i].k, e>> : e \in Range(d[i].v)} : i \in DOMAIN d}

NoDupList(s) == \A i, j \in DOMAIN s : s[i] = s[j] => i = j

\* the elements of S as a list in ascending (up) or descending order
RECURSIVE SetToList(_, _)
SetToList(S, up) ==
    IF S = {} THEN <<>>
    ELSE LET x == IF up THEN CHOOSE y \in S : \A z \in S : Idx(y) <= Idx(z)
                        ELSE CHOOSE y \in S : \A z \in S : Idx(y) >= Idx(z)
         IN <<x>> \o SetToList(S \ {x}, up)

(***************************************************************************)
(* reverse_graph                                                           *)
(***************************************************************************)
\* a plausible slip: an edge to a target already seen is dropped
RECURSIVE reverse_graph_inner_first_only(_, _, _)
reverse_graph_inner_first_only(rev, v, es) ==
    IF es = <<>> THEN rev
    ELSE LET e == Head(es)
         IN reverse_graph_inner_first_only(
                IF ~Has(rev, e) THEN Put(rev, e, <<v>>) ELSE rev, v, Tail(es))

\* lines 15-18 for one key v: es is what is left of graph[v]
RECURSIVE reverse_graph_inner(_, _, _)
reverse_graph_inner(rev, v, es) ==
    IF es = <<>> THEN rev
    ELSE LET e  == Head(es)
             r1 == IF ~Has(rev, e) THEN Put(rev, e, <<>>) ELSE rev
         IN reverse_graph_inner(Put(r1, e, Append(Get(r1, e), v)), v, Tail(es))

RECURSIVE reverse_graph_from(_, _)
reverse_graph_from(rev, g) ==
    IF g = <<>> THEN rev
    ELSE reverse_graph_from(reverse_graph_inner(rev, Head(g).k, Head(g).v), Tail(g))

\* a plausible slip: reverse starts with an empty list for every key of the
\* graph (reverse = {k: [] for k in graph})
reverse_graph_keeps_keys(g) ==
    reverse_graph_from([i \in DOMAIN g |-> [k |-> g[i].k, v |-> <<>>]], g)

reverse_graph(g) == reverse_graph_from(<<>>, g)

(***************************************************************************)
(* DAG trimming.  term_term_dict and term_gene_dict are built by dict       *)
(* comprehensions that copy no list: the value of an entry is the very     *)
(* list object DAG holds under that key.  Here such a value is the key of  *)
(* DAG whose list it is, and Deref reads the lists through DAG.            *)
(***************************************************************************)
\* {key: DAG[key] for key in list(DAG.keys()) if key in all_terms}
SplitTerms(D, at) ==
    LET own == SelectSeq(D, LAMBDA e : e.k \in at)
    IN [i \in DOMAIN own |-> [k |-> own[i].k, v |-> own[i].k]]

\* {key: DAG[key] for key in list(DAG.keys()) if key not in all_terms}
SplitGenes(D, at) ==
    LET own == SelectSeq(D, LAMBDA e : e.k \notin at)
    IN [i \in DOMAIN own |-> [k |-> own[i].k, v |-> own[i].k]]

\* a dict of references read as a dict of lists
Deref(d, heap) == [i \in DOMAIN d |-> [k |-> d[i].k, v |-> Get(heap, d[i].v)]]

\* a plausible slip: line 130 sits inside the if of line 128, so a parent
\* that has genes of its own is given none
RECURSIVE trim_term_bottom_loop_extend_new_only(_, _, _, _, _, _)
trim_term_bottom_loop_extend_new_only(term, parents, i, tdr, gdr, up) ==
    IF i > Len(parents)
    THEN [term_dict_rev |-> tdr, gene_dict_rev |-> gdr, err |-> "none"]
    ELSE LET p == parents[i] IN
         IF ~Has(tdr, p)
         THEN [term_dict_rev |-> tdr, gene_dict_rev |-> gdr, err |-> "KeyError"]
         ELSE IF term \notin Range(Get(tdr, p))
         THEN [term_dict_rev |-> tdr, gene_dict_rev |-> gdr, err |-> "ValueError"]
         ELSE LET tdr1 == Put(tdr, p, Remove(Get(tdr, p), term))
              IN IF Has(gdr, p)
                 THEN trim_term_bottom_loop_extend_new_only(term, parents, i + 1,
                                                            tdr1, gdr, up)
                 ELSE IF ~Has(gdr, term)
                 THEN [term_dict_rev |-> tdr1, gene_dict_rev |-> Put(gdr, p, <<>>),
                       err |-> "KeyError"]
                 ELSE trim_term_bottom_loop_extend_new_only(term, parents, i + 1,
                        tdr1,
                        Put(gdr, p, SetToList(Range(Get(gdr, term)), up)), up)

\* a plausible slip: the genes go to the first parent only
RECURSIVE trim_term_bottom_loop_first_parent(_, _, _, _, _, _)
trim_term_bottom_loop_first_parent(term, parents, i, tdr, gdr, up) ==
    IF i > Len(parents)
    THEN [term_dict_rev |-> tdr, gene_dict_rev |-> gdr, err |-> "none"]
    ELSE LET p == parents[i] IN
         IF ~Has(tdr, p)
         THEN [term_dict_rev |-> tdr, gene_dict_rev |-> gdr, err |-> "KeyError"]
         ELSE IF term \notin Range(Get(tdr, p))
         THEN [term_dict_rev |-> tdr, gene_dict_rev |-> gdr, err |-> "ValueError"]
         ELSE LET tdr1 == Put(tdr, p, Remove(Get(tdr, p), term))
                  gdr1 == IF ~Has(gdr, p) THEN Put(gdr, p, <<>>) ELSE gdr
              IN IF ~Has(gdr1, term)
                 THEN [term_dict_rev |-> tdr1, gene_dict_rev |-> gdr1,
                       err |-> "KeyError"]
                 ELSE trim_term_bottom_loop_first_parent(term, parents, i + 1, tdr1,
                        IF i = 1
                        THEN Put(gdr1, p,
                               SetToList(Range(Get(gdr1, p) \o Get(gdr1, term)), up))
                        ELSE gdr1,
                        up)

\* lines 126-131: the loop over parents, from parents[i] on
RECURSIVE trim_term_bottom_loop(_, _, _, _, _, _)
trim_term_bottom_loop(term, parents, i, tdr, gdr, up) ==
    IF i > Len(parents)
    THEN [term_dict_rev |-> tdr, gene_dict_rev |-> gdr, err |-> "none"]
    ELSE LET p == parents[i] IN
         IF ~Has(tdr, p)
         THEN [term_dict_rev |-> tdr, gene_dict_rev |-> gdr, err |-> "KeyError"]
         ELSE IF term \notin Range(Get(tdr, p))
         THEN [term_dict_rev |-> tdr, gene_dict_rev |-> gdr, err |-> "ValueError"]
         ELSE LET tdr1 == Put(tdr, p, Remove(Get(tdr, p), term))
                  gdr1 == IF ~Has(gdr, p) THEN Put(gdr, p, <<>>) ELSE gdr
              IN IF ~Has(gdr1, term)
                 THEN [term_dict_rev |-> tdr1, gene_dict_rev |-> gdr1,
                       err |-> "KeyError"]
                 ELSE trim_term_bottom_loop(term, parents, i + 1, tdr1,
                        Put(gdr1, p,
                            SetToList(Range(Get(gdr1, p) \o Get(gdr1, term)), up)),
                        up)

\* a plausible slip: a term without a gene entry is passed over
\* (if term not in gene_dict_rev: return)
trim_term_bottom_body_skips(term, parents, tdr, gdr, up) ==
    IF ~Has(gdr, term)
    THEN [term_dict_rev |-> tdr, gene_dict_rev |-> gdr, err |-> "none"]
    ELSE LET r == trim_term_bottom_loop(term, parents, 1, tdr, gdr, up)
         IN IF r.err # "none" THEN r
            ELSE [term_dict_rev |-> Del(r.term_dict_rev, term),
                  gene_dict_rev |-> Del(r.gene_dict_rev, term),
                  err |-> "none"]

\* a plausible slip: line 134 is missing, the term keeps its gene entry
trim_term_bottom_body_keeps_genes(term, parents, tdr, gdr, up) ==
    LET r == trim_term_bottom_loop(term, parents, 1, tdr, gdr, up)
    IN IF r.err # "none" THEN r
       ELSE IF ~Has(r.gene_dict_rev, term)
       THEN [term_dict_rev |-> r.term_dict_rev, gene_dict_rev |-> r.gene_dict_rev,
             err |-> "KeyError"]
       ELSE [term_dict_rev |-> Del(r.term_dict_rev, term),
             gene_dict_rev |-> r.gene_dict_rev,
             err |-> "none"]

\* a plausible slip: the child terms of the term are handed to its parents
\* as its genes are (term_dict_rev[p].extend(term_dict_rev[term]))
RECURSIVE AttachChildren(_, _, _)
AttachChildren(tdr, parents, kids) ==
    IF parents = <<>> THEN tdr
    ELSE AttachChildren(Put(tdr, Head(parents), Get(tdr, Head(parents)) \o kids),
                        Tail(parents), kids)

trim_term_bottom_body_reattaches(term, parents, tdr, gdr, up) ==
    LET r == trim_term_bottom_loop(term, parents, 1, tdr, gdr, up)
        kids == IF Has(tdr, term) THEN Get(tdr, term) ELSE <<>>
    IN IF r.err # "none" THEN r
       ELSE IF ~Has(r.gene_dict_rev, term)
       THEN [term_dict_rev |-> r.term_dict_rev, gene_dict_rev |-> r.gene_dict_rev,
             err |-> "KeyError"]
       ELSE [term_dict_rev |-> Del(AttachChildren(r.term_dict_rev, parents, kids), term),
             gene_dict_rev |-> Del(r.gene_dict_rev, term),
             err |-> "none"]

\* lines 117-136, from the dicts and the parents read at lines 118-121
trim_term_bottom_body(term, parents, tdr, gdr, up) ==
    LET r == trim_term_bottom_loop(term, parents, 1, tdr, gdr, up)
    IN IF r.err # "none" THEN r
       ELSE IF ~Has(r.gene_dict_rev, term)
       THEN [term_dict_rev |-> r.term_dict_rev, gene_dict_rev |-> r.gene_dict_rev,
             err |-> "KeyError"]
       ELSE [term_dict_rev |-> Del(r.term_dict_rev, term),
             gene_dict_rev |-> Del(r.gene_dict_rev, term),
             err |-> "none"]

\* a plausible slip: parents is the list of term_term_dict itself, not a copy,
\* and the loop consumes it (while parents: p = parents.pop(0))
trim_term_bottom_inplace(term, ttd, tdr, gdr, heap, up) ==
    LET parents == IF Has(ttd, term) THEN Get(heap, Get(ttd, term)) ELSE <<>>
        r == trim_term_bottom_body(term, parents, tdr, gdr, up)
    IN [term_dict_rev |-> r.term_dict_rev, gene_dict_rev |-> r.gene_dict_rev,
        heap |-> IF Has(ttd, term) THEN Put(heap, Get(ttd, term), <<>>) ELSE heap,
        err |-> r.err]

\* trim_term_bottom: the dicts as it leaves them, returning or raising.  heap
\* is the caller's DAG, which term_term_dict refers to and which no statement
\* writes to (parents is a deep copy); up is the order in which
\* list(set(...)) happens to give the genes.
trim_term_bottom(term, ttd, tdr, gdr, heap, up) ==
    LET parents == IF Has(ttd, term) THEN Get(heap, Get(ttd, term)) ELSE <<>>
        r == trim_term_bottom_body(term, parents, tdr, gdr, up)
    IN [term_dict_rev |-> r.term_dict_rev, gene_dict_rev |-> r.gene_dict_rev,
        heap |-> heap, err |-> r.err]

\* a plausible slip: the term's gene entry is left in place
trim_term_top_keeps_genes(t, tdr, gdr) ==
    [term_dict_rev |-> Del(tdr, t), gene_dict_rev |-> gdr, err |-> "none"]

\* a plausible slip: lines 185-186 are missing, the term keeps its children
trim_term_top_keeps_children(t, tdr, gdr) ==
    [term_dict_rev |-> tdr, gene_dict_rev |-> Del(gdr, t), err |-> "none"]

\* a plausible slip: the entries are deleted without the tests of lines 185
\* and 187
trim_term_top_unguarded(t, tdr, gdr) ==
    [term_dict_rev |-> IF Has(tdr, t) THEN Del(tdr, t) ELSE tdr,
     gene_dict_rev |-> IF Has(tdr, t) /\ Has(gdr, t) THEN Del(gdr, t) ELSE gdr,
     err |-> IF Has(tdr, t) /\ Has(gdr, t) THEN "none" ELSE "KeyError"]

\* trim_term_top
trim_term_top(t, tdr, gdr) ==
    [term_dict_rev |-> IF Has(tdr, t) THEN Del(tdr, t) ELSE tdr,
     gene_dict_rev |-> IF Has(gdr, t) THEN Del(gdr, t) ELSE gdr,
     err |-> "none"]

\* a plausible slip: the gene mapping is reversed back but never merged in
Combine_terms_only(tdr, gdr) == reverse_graph(tdr)

\* lines 171-175 and 222-226: reverse back and combine
Combine(tdr, gdr) == Update(reverse_graph(tdr), reverse_graph(gdr))

(***************************************************************************)
(* create_binary_matrix.  A data frame in wide format is its row labels    *)
(* (index), its column labels (columns) and its entries (values).          *)
(***************************************************************************)
\* depth.loc[depth['depth'] == num, 'ID'].tolist()
LevelIDs(dep, num) ==
    LET rows == SelectSeq(dep, LAMBDA r : r.depth = num)
    IN [i \in DOMAIN rows |-> rows[i].ID]

\* list(itertools.product(children, parents))
Product(children, parents) ==
    [n \in 1..(Len(children) * Len(parents)) |->
        <<children[((n - 1) \div Len(parents)) + 1],
          parents[((n - 1) % Len(parents)) + 1]>>]

\* DataFrame.pivot of the long format: the labels are the distinct values
\* found in the rows, sorted; no row, no label
Pivot(long, interact) ==
    LET idx  == SetToList({long[n][1] : n \in DOMAIN long}, TRUE)
        cols == SetToList({long[n][2] : n \in DOMAIN long}, TRUE)
    IN [index |-> idx, columns |-> cols,
        values |-> [e \in Range(idx) \X Range(cols) |->
                      interact[CHOOSE n \in DOMAIN long : long[n] = e]]]

\* a plausible slip: the parents of every child are looked up before the
\* pairs are formed (for x in children: px = dag[x]; ...)
create_binary_matrix_eager(dep, d, cnum, pnum) ==
    LET children == LevelIDs(dep, cnum)
        parents  == LevelIDs(dep, pnum)
        long     == Product(children, parents)
    IN IF \E n \in DOMAIN children : ~Has(d, children[n])
       THEN [err |-> "KeyError", df |-> <<>>]
       ELSE [err |-> "none",
             df |-> Pivot(long,
                      [n \in DOMAIN long |->
                         IF long[n][2] \in Range(Get(d, long[n][1])) THEN 1 ELSE 0])]

\* create_binary_matrix: the exception it raises, or the frame it returns
create_binary_matrix(dep, d, cnum, pnum) ==
    LET children == LevelIDs(dep, cnum)
        parents  == LevelIDs(dep, pnum)
        long     == Product(children, parents)
    IN IF \E n \in DOMAIN long : ~Has(d, long[n][1])
       THEN [err |-> "KeyError", df |-> <<>>]
       ELSE [err |-> "none",
             df |-> Pivot(long,
                      [n \in DOMAIN long |->
                         IF long[n][2] \in Range(Get(d, long[n][1])) THEN 1 ELSE 0])]

(***************************************************************************)
(* get_descendants                                                         *)
(***************************************************************************)
\* a plausible slip: the start term is queued but not recorded
get_descendants_init_unrecorded(t) == [descendants |-> <<>>, queue |-> <<t>>]

\* lines 31-35
get_descendants_init(t) == [descendants |-> <<t>>, queue |-> <<t>>]

\* a plausible slip: a child already recorded is not recorded again
get_descendants_visit_once(d, desc, q) ==
    LET node == Head(q)
        children == IF Has(d, node)
                    THEN SelectSeq(Get(d, node), LAMBDA c : c \notin Range(desc))
                    ELSE <<>>
    IN [descendants |-> desc \o children, queue |-> Tail(q) \o children]

\* lines 38-44: one iteration of the while loop, the queue not empty
get_descendants_visit(d, desc, q) ==
    LET node == Head(q)
    IN IF Has(d, node)
       THEN [descendants |-> desc \o Get(d, node),
             queue |-> Tail(q) \o Get(d, node)]
       ELSE [descendants |-> desc, queue |-> Tail(q)]

(***************************************************************************)
(* get_descendant_genes                                                    *)
(***************************************************************************)
\* lines 52-55: the comprehension goes through the keys of dag, in the
\* order of dag, and keeps those found in descendants; the lists kept are
\* then flattened
RECURSIVE get_descendant_genes(_, _)
get_descendant_genes(d, desc) ==
    IF d = <<>> THEN <<>>
    ELSE (IF Head(d).k \in Range(desc) THEN Head(d).v ELSE <<>>)
            \o get_descendant_genes(Tail(d), desc)

(***************************************************************************)
(* find_all_paths                                                          *)
(***************************************************************************)
RECURSIVE find_all_paths(_, _, _, _)
RECURSIVE find_all_paths_loop(_, _, _, _)

\* a plausible slip: the paths of the first node that has any are returned
\* (return new_paths inside the loop)
RECURSIVE find_all_paths_loop_first(_, _, _, _)
find_all_paths_loop_first(g, nodes, e, path) ==
    IF nodes = <<>> THEN <<>>
    ELSE LET new_paths == IF Head(nodes) \notin Range(path)
                          THEN find_all_paths(g, Head(nodes), e, path)
                          ELSE <<>>
         IN IF new_paths # <<>> THEN new_paths
            ELSE find_all_paths_loop_first(g, Tail(nodes), e, path)

\* a plausible slip: the test of line 237 comes before the test of line 235
find_all_paths_key_first(g, s, e, path0) ==
    LET path == Append(path0, s)
    IN IF ~Has(g, s) THEN <<>>
       ELSE IF s = e THEN <<path>>
       ELSE find_all_paths_loop(g, Get(g, s), e, path)

\* a plausible slip: the guard of line 241 looks at path[1:], so the start
\* of the path may be entered once more
RECURSIVE find_all_paths_loop_unguarded_start(_, _, _, _)
find_all_paths_loop_unguarded_start(g, nodes, e, path) ==
    IF nodes = <<>> THEN <<>>
    ELSE (IF Head(nodes) \notin Range(Tail(path))
          THEN find_all_paths(g, Head(nodes), e, path)
          ELSE <<>>)
            \o find_all_paths_loop_unguarded_start(g, Tail(nodes), e, path)

\* lines 240-244: the loop over graph[start], nodes what is left of it
find_all_paths_loop(g, nodes, e, path) ==
    IF nodes = <<>> THEN <<>>
    ELSE (IF Head(nodes) \notin Range(path)
          THEN find_all_paths(g, Head(nodes), e, path)
          ELSE <<>>)
            \o find_all_paths_loop(g, Tail(nodes), e, path)

\* find_all_paths(graph, start, end, path)
find_all_paths(g, s, e, path0) ==
    LET path == Append(path0, s)
    IN IF s = e THEN <<path>>
       ELSE IF ~Has(g, s) THEN <<>>
       ELSE find_all_paths_loop(g, Get(g, s), e, path)

(***************************************************************************)
(* Values of the variables a specification does not use.                   *)
(***************************************************************************)
TrimIdle ==
    /\ DAG = <<>> /\ DAG_before = <<>> /\ all_terms = {} /\ trim_terms = <<>>
    /\ term_term_dict = <<>> /\ term_gene_dict = <<>>
    /\ term_dict_rev = <<>> /\ gene_dict_rev = <<>> /\ gene_before = <<>>
    /\ term_dict = <<>>

RevIdle == graph = <<>> /\ reverse = <<>> /\ reverse2 = <<>>

MaskIdle ==
    /\ depth = <<>> /\ dag = <<>> /\ childnum = 0 /\ parentnum = 0 /\ df = <<>>

DescIdle ==
    /\ gd_dag = <<>> /\ gd_term = "" /\ descendants = <<>> /\ queue = <<>>
    /\ visits = <<>>

GenesIdle == dg_dag = <<>> /\ dg_descendants = <<>> /\ genes = <<>>

PathIdle == fp_graph = <<>> /\ start = "" /\ end = "" /\ paths = <<>>

CtorIdle ==
    /\ cls = "" /\ ontobj_keys = {} /\ top_thresh = 0 /\ bottom_thresh = 0
    /\ attrs = <<>>

TrainIdle ==
    /\ model_cls = "" /\ epochs = 0 /\ epoch = 0 /\ val_loss_min = 0
    /\ losses = <<>> /\ saves = <<>> /\ checkpoint = <<>>

MoreIdle == DescIdle /\ GenesIdle /\ PathIdle /\ CtorIdle /\ TrainIdle

(***************************************************************************)
(* The base DAGs: child -> parents mappings over the terms and the genes,  *)
(* acyclic (a term's parents come before it in T1 < T2 < ...), genes       *)
(* annotated to terms only, at most MaxEdges edges.  The genes come first, *)
(* then the terms from the deepest up; a term without parents is a key     *)
(* with an empty list (roots = TRUE) or no key at all.  Genes are          *)
(* interchangeable, so of the DAGs that differ by renaming genes one is    *)
(* kept.                                                                   *)
(***************************************************************************)
AllEdges == {e \in Nodes \X Terms : e[1] \in Genes \/ Idx(e[2]) < Idx(e[1])}

RECURSIVE EdgeSets(_)
EdgeSets(n) ==
    IF n = 0 THEN {{}}
    ELSE LET P == EdgeSets(n - 1)
         IN P \cup {E \cup {e} : E \in P, e \in AllEdges}

ParentsIn(E, c) == {q \in Terms : <<c, q>> \in E}

RECURSIVE Rank(_)
Rank(S) ==
    IF S = {} THEN 0
    ELSE LET x == CHOOSE y \in S : TRUE IN 2^Idx(x) + Rank(S \ {x})

Canonical(E) ==
    \A i \in 1..(NumGenes - 1) :
        Rank(ParentsIn(E, GeneIds[i])) >= Rank(ParentsIn(E, GeneIds[i + 1]))

NodeOrder == SetToList(Genes, TRUE) \o SetToList(Terms, FALSE)

MkDAG(E, roots) ==
    LET kept == SelectSeq(NodeOrder,
                    LAMBDA n : ParentsIn(E, n) # {} \/ (roots /\ n \in Terms))
    IN [i \in DOMAIN kept |->
            [k |-> kept[i], v |-> SetToList(ParentsIn(E, kept[i]), TRUE)]]

BaseDAGs ==
    {MkDAG(E, roots) : E \in {F \in EdgeSets(MaxEdges) : Canonical(F)},
                       roots \in BOOLEAN}

ExampleDAG ==
    << [k |-> "gene1", v |-> <<"T3">>], [k |-> "gene2", v |-> <<"T3">>],
       [k |-> "T3", v |-> <<"T2">>], [k |-> "T2", v |-> <<"T1">>],
       [k |-> "T1", v |-> <<>>] >>

(***************************************************************************)
(* trim_DAG_bottom and trim_DAG_top as one call each: the split and the    *)
(* reversals, one step per element of trim_terms, the combination.  The    *)
(* for loop takes the elements of the caller's list one by one; which      *)
(* element comes next is the caller's choice, and so is where the list     *)
(* ends.                                                                   *)
(***************************************************************************)
TrimInit ==
    /\ fn \in {"trim_DAG_bottom", "trim_DAG_top"}
    /\ pc = "start" /\ err = "none"
    /\ DAG \in BaseDAGs
    /\ DAG_before = DAG
    /\ all_terms = Terms
    /\ trim_terms = <<>>
    /\ term_term_dict = <<>> /\ term_gene_dict = <<>>
    /\ term_dict_rev = <<>> /\ gene_dict_rev = <<>> /\ gene_before = <<>>
    /\ term_dict = <<>>
    /\ RevIdle /\ MaskIdle /\ MoreIdle

\* trim_DAG_bottom, lines 155-163
BottomSplit ==
    /\ fn = "trim_DAG_bottom" /\ pc = "start"
    /\ term_term_dict' = SplitTerms(DAG, all_terms)
    /\ term_gene_dict' = SplitGenes(DAG, all_terms)
    /\ term_dict_rev' = reverse_graph(Deref(SplitTerms(DAG, all_terms), DAG))
    /\ gene_dict_rev' = reverse_graph(Deref(SplitGenes(DAG, all_terms), DAG))
    /\ pc' = "loop"
    /\ UNCHANGED <<fn, err, DAG, DAG_before, all_terms, trim_terms, gene_before,
                   term_dict, revVars, maskVars,
                   moreVars>>

\* trim_DAG_bottom, lines 166-168: one iteration, with the whole call of
\* trim_term_bottom; an exception leaves the function
BottomStep ==
    /\ fn = "trim_DAG_bottom" /\ pc = "loop"
    /\ Len(trim_terms) < MaxTrim
    /\ \E t \in Terms, up \in BOOLEAN :
          LET r == trim_term_bottom(t, term_term_dict, term_dict_rev,
                                    gene_dict_rev, DAG, up)
          IN /\ trim_terms' = Append(trim_terms, t)
             /\ gene_before' = gene_dict_rev
             /\ term_dict_rev' = r.term_dict_rev
             /\ gene_dict_rev' = r.gene_dict_rev
             /\ DAG' = r.heap
             /\ err' = r.err
             /\ pc' = IF r.err = "none" THEN "loop" ELSE "raised"
    /\ UNCHANGED <<fn, DAG_before, all_terms, term_term_dict, term_gene_dict,
                   term_dict, revVars, maskVars,
                   moreVars>>

\* trim_DAG_bottom, lines 170-175
BottomReturn ==
    /\ fn = "trim_DAG_bottom" /\ pc = "loop"
    /\ term_dict' = Combine(term_dict_rev, gene_dict_rev)
    /\ pc' = "done"
    /\ UNCHANGED <<fn, err, DAG, DAG_before, all_terms, trim_terms,
                   term_term_dict, term_gene_dict, term_dict_rev, gene_dict_rev,
                   gene_before, revVars, maskVars,
                   moreVars>>

\* trim_DAG_top, lines 206-214
TopSplit ==
    /\ fn = "trim_DAG_top" /\ pc = "start"
    /\ term_term_dict' = SplitTerms(DAG, all_terms)
    /\ term_gene_dict' = SplitGenes(DAG, all_terms)
    /\ term_dict_rev' = reverse_graph(Deref(SplitTerms(DAG, all_terms), DAG))
    /\ gene_dict_rev' = reverse_graph(Deref(SplitGenes(DAG, all_terms), DAG))
    /\ pc' = "loop"
    /\ UNCHANGED <<fn, err, DAG, DAG_before, all_terms, trim_terms, gene_before,
                   term_dict, revVars, maskVars,
                   moreVars>>

\* trim_DAG_top, lines 217-219: one iteration, with the call of trim_term_top
TopStep ==
    /\ fn = "trim_DAG_top" /\ pc = "loop"
    /\ Len(trim_terms) < MaxTrim
    /\ \E t \in Terms :
          LET r == trim_term_top(t, term_dict_rev, gene_dict_rev)
          IN /\ trim_terms' = Append(trim_terms, t)
             /\ gene_before' = gene_dict_rev
             /\ term_dict_rev' = r.term_dict_rev
             /\ gene_dict_rev' = r.gene_dict_rev
             /\ err' = r.err
             /\ pc' = IF r.err = "none" THEN "loop" ELSE "raised"
    /\ UNCHANGED <<fn, DAG, DAG_before, all_terms, term_term_dict,
                   term_gene_dict, term_dict, revVars, maskVars,
                   moreVars>>

\* trim_DAG_top, lines 221-226
TopReturn ==
    /\ fn = "trim_DAG_top" /\ pc = "loop"
    /\ term_dict' = Combine(term_dict_rev, gene_dict_rev)
    /\ pc' = "done"
    /\ UNCHANGED <<fn, err, DAG, DAG_before, all_terms, trim_terms,
                   term_term_dict, term_gene_dict, term_dict_rev, gene_dict_rev,
                   gene_before, revVars, maskVars,
                   moreVars>>

TrimNext ==
    \/ BottomSplit \/ BottomStep \/ BottomReturn
    \/ TopSplit \/ TopStep \/ TopReturn

SpecTrim == TrimInit /\ [][TrimNext]_vars

(***************************************************************************)
(* trim_DAG_bottom as a function of its arguments (list(set(...)) taken in *)
(* ascending order): the exception it raises, or the DAG it returns.       *)
(***************************************************************************)
RECURSIVE trim_DAG_bottom_loop(_, _, _, _, _)
trim_DAG_bottom_loop(ts, ttd, tdr, gdr, heap) ==
    IF ts = <<>>
    THEN [term_dict_rev |-> tdr, gene_dict_rev |-> gdr, err |-> "none"]
    ELSE LET r == trim_term_bottom(Head(ts), ttd, tdr, gdr, heap, TRUE)
         IN IF r.err # "none"
            THEN [term_dict_rev |-> r.term_dict_rev,
                  gene_dict_rev |-> r.gene_dict_rev, err |-> r.err]
            ELSE trim_DAG_bottom_loop(Tail(ts), ttd, r.term_dict_rev,
                                      r.gene_dict_rev, r.heap)

trim_DAG_bottom(D, at, ts) ==
    LET r == trim_DAG_bottom_loop(ts, SplitTerms(D, at),
                 reverse_graph(Deref(SplitTerms(D, at), D)),
                 reverse_graph(Deref(SplitGenes(D, at), D)), D)
    IN [err |-> r.err,
        term_dict |-> IF r.err = "none"
                      THEN Combine(r.term_dict_rev, r.gene_dict_rev) ELSE <<>>]

\* trim_DAG_top as a function of its arguments: the loop of lines 217-219
\* over the removal list ts, then lines 221-226
RECURSIVE trim_DAG_top_loop(_, _, _)
trim_DAG_top_loop(ts, tdr, gdr) ==
    IF ts = <<>>
    THEN [term_dict_rev |-> tdr, gene_dict_rev |-> gdr, err |-> "none"]
    ELSE LET r == trim_term_top(Head(ts), tdr, gdr)
         IN IF r.err # "none" THEN r
            ELSE trim_DAG_top_loop(Tail(ts), r.term_dict_rev, r.gene_dict_rev)

trim_DAG_top(D, at, ts) ==
    LET r == trim_DAG_top_loop(ts,
                 reverse_graph(Deref(SplitTerms(D, at), D)),
                 reverse_graph(Deref(SplitGenes(D, at), D)))
    IN [err |-> r.err,
        term_dict |-> IF r.err = "none"
                      THEN Combine(r.term_dict_rev, r.gene_dict_rev) ELSE <<>>]

\* the reorderings of a list
PermsOf(s) == {[i \in DOMAIN s |-> s[f[i]]] : f \in Permutations(DOMAIN s)}

Trimming == fn \in {"trim_DAG_bottom", "trim_DAG_top"}

\* the child terms / the genes / the parents of a term in the base DAG
ChildTerms(D, t) == {D[i].k : i \in {j \in DOMAIN D : D[j].k \in Terms /\ t \in Range(D[j].v)}}
GenesOf(D, t) == {D[i].k : i \in {j \in DOMAIN D : D[j].k \notin Terms /\ t \in Range(D[j].v)}}
ParentsOf(D, t) == IF Has(D, t) THEN Range(Get(D, t)) ELSE {}

\* C1: at every point of a call of trim_DAG_bottom or trim_DAG_top, also
\* after it has returned and after it has raised, the caller's DAG is the
\* mapping it was when the call started: same keys, same lists, same order.
C1_CallerDAGUntouched == Trimming => DAG = DAG_before

C1_Witness ==
    /\ fn = "trim_DAG_bottom" /\ pc = "done"
    /\ Len(trim_terms) = 2 /\ trim_terms[1] # trim_terms[2]
    /\ \A i \in DOMAIN trim_terms : ParentsOf(DAG, trim_terms[i]) # {}
    /\ EdgeSet(term_dict) # EdgeSet(DAG)

\* C1, the other exit: a call that raised
C1_WitnessRaised ==
    /\ fn = "trim_DAG_bottom" /\ pc = "raised" /\ Len(trim_terms) = 2

\* C2: no term of the removal list is a key of the DAG trim_DAG_top returns.
C2_RemovedNotAKey ==
    (fn = "trim_DAG_top" /\ pc = "done")
    => \A i \in DOMAIN trim_terms : ~Has(term_dict, trim_terms[i])

\* C3: no parent list of the DAG trim_DAG_top returns, of a term or of a
\* gene, holds a term of the removal list.
C3_RemovedNotAParent ==
    (fn = "trim_DAG_top" /\ pc = "done")
    => \A i \in DOMAIN trim_terms : \A j \in DOMAIN term_dict :
          trim_terms[i] \notin Range(term_dict[j].v)

C3_Witness ==
    /\ fn = "trim_DAG_top" /\ pc = "done"
    /\ \E i \in DOMAIN trim_terms :
          /\ ChildTerms(DAG, trim_terms[i]) # {}
          /\ GenesOf(DAG, trim_terms[i]) # {}
          /\ \E g \in GenesOf(DAG, trim_terms[i]) : Has(term_dict, g)

\* C4: when trim_DAG_bottom has returned for a removal list, it returns for
\* every reordering of that list, and with the same edges.
C4_OrderIndependent ==
    (fn = "trim_DAG_bottom" /\ pc = "done")
    => \A q \in PermsOf(trim_terms) :
          LET r == trim_DAG_bottom(DAG, all_terms, q)
          IN r.err = "none" /\ EdgeSet(r.term_dict) = EdgeSet(term_dict)

\* the last call of trim_term_bottom returned, and its term had parents
BottomStepDone ==
    /\ fn = "trim_DAG_bottom" /\ pc = "loop" /\ trim_terms # <<>>
    /\ ParentsOf(DAG, trim_terms[Len(trim_terms)]) # {}

\* C5: after a step of trim_term_bottom that removed a term T with parents,
\* every gene T had just before the step is in the gene list of each parent
\* of T, and T has no gene entry.
C5_GenesMovedToParents ==
    BottomStepDone
    => LET T == trim_terms[Len(trim_terms)]
       IN /\ ~Has(gene_dict_rev, T)
          /\ \A q \in ParentsOf(DAG, T) :
                /\ Has(gene_dict_rev, q)
                /\ Range(Get(gene_before, T)) \subseteq Range(Get(gene_dict_rev, q))

C5_Witness ==
    /\ BottomStepDone
    /\ Cardinality(ParentsOf(DAG, trim_terms[Len(trim_terms)])) = 2
    /\ Get(gene_before, trim_terms[Len(trim_terms)]) # <<>>

\* trim_DAG_bottom returned for the one-element removal list <<T>>, T a term
\* without child terms
SingleLeafTrim ==
    /\ fn = "trim_DAG_bottom" /\ pc = "done" /\ Len(trim_terms) = 1
    /\ ChildTerms(DAG, trim_terms[1]) = {}

ExampleResult ==
    << [k |-> "T2", v |-> <<"T1">>], [k |-> "gene1", v |-> <<"T2">>],
       [k |-> "gene2", v |-> <<"T2">>] >>

\* two dicts are equal in Python: the same keys with the same values
DictEq(a, b) ==
    /\ Keys(a) = Keys(b) /\ Len(a) = Cardinality(Keys(a)) /\ Len(b) = Cardinality(Keys(b))
    /\ \A key \in Keys(a) : Get(a, key) = Get(b, key)

\* C6: trim_DAG_bottom with the removal list <<T>>, T without child terms:
\* the result has T neither as a key nor in a parent list, every gene of T
\* has every parent of T, every edge without T is kept (and the result has
\* no other edge); for the chain gene1, gene2 -> T3 -> T2 -> T1 and <<T3>>
\* the result is {gene1: [T2], gene2: [T2], T2: [T1]}.
C6_SingleLeafTrim ==
    SingleLeafTrim
    => LET T == trim_terms[1]
           kept  == {e \in EdgeSet(DAG) : e[1] # T /\ e[2] # T}
           moved == GenesOf(DAG, T) \X ParentsOf(DAG, T)
       IN /\ ~Has(term_dict, T)
          /\ \A j \in DOMAIN term_dict : T \notin Range(term_dict[j].v)
          /\ moved \subseteq EdgeSet(term_dict)
          /\ kept \subseteq EdgeSet(term_dict)
          /\ EdgeSet(term_dict) = kept \cup moved
          /\ (DAG = ExampleDAG /\ T = "T3") => DictEq(term_dict, ExampleResult)

C6_Witness ==
    /\ SingleLeafTrim /\ DAG = ExampleDAG /\ trim_terms = <<"T3">>
    /\ DictEq(term_dict, ExampleResult)

\* the term the last iteration took, and whether the reversed gene mapping
\* had an entry for it when the iteration began
LastTerm == trim_terms[Len(trim_terms)]

LastHadNoGenes == trim_terms # <<>> /\ ~Has(gene_before, LastTerm)

\* C16: trim_DAG_bottom, given a removal list with a term that has no entry
\* in the reversed gene mapping when it is processed, raises and returns no
\* DAG; it neither skips the term nor returns a partly trimmed DAG.
C16_BottomMissingGenesRaises ==
    (fn = "trim_DAG_bottom" /\ LastHadNoGenes)
    => pc = "raised" /\ err # "none" /\ term_dict = <<>>

\* the term fails after an earlier term was trimmed
C16_Witness ==
    /\ fn = "trim_DAG_bottom" /\ LastHadNoGenes /\ pc = "raised"
    /\ Len(trim_terms) = 2
    /\ term_dict_rev # reverse_graph(Deref(term_term_dict, DAG))

\* C17: trim_DAG_top, given a removal list with a term that has no entry in
\* the reversed gene mapping, fails with a missing-node error.
C17_TopMissingGenesRaises ==
    (fn = "trim_DAG_top" /\ LastHadNoGenes) => pc = "raised" /\ err # "none"

\* the DAG trim_DAG_bottom returns for the removal list without its last term
BeforeLast ==
    trim_DAG_bottom(DAG_before, all_terms,
                    SubSeq(trim_terms, 1, Len(trim_terms) - 1)).term_dict

\* trim_DAG_bottom has returned and the last term it removed had no parents
\* (lines 118-121 gave parents = [])
RootTrimmedLast ==
    /\ fn = "trim_DAG_bottom" /\ pc = "done" /\ trim_terms # <<>>
    /\ \/ ~Has(term_term_dict, LastTerm)
       \/ Get(DAG, Get(term_term_dict, LastTerm)) = <<>>

OnlyAnnotatedToLast(g) == ParentsOf(BeforeLast, g) = {LastTerm}

\* C20, as stated: the genes of a removed term without parents go nowhere,
\* a gene annotated only to it is not a key of the result, and every other
\* gene and term has the parent list it had before that step.
C20_OthersUnchanged ==
    RootTrimmedLast
    => /\ \A g \in Genes : OnlyAnnotatedToLast(g) => ~Has(term_dict, g)
       /\ \A n \in Nodes \ {LastTerm} :
             \/ OnlyAnnotatedToLast(n)
             \/ /\ Has(term_dict, n) <=> Has(BeforeLast, n)
                /\ ParentsOf(term_dict, n) = ParentsOf(BeforeLast, n)

\* C20, amended: the step takes away the edges into the removed term and
\* changes nothing else: a gene annotated only to it is not a key of the
\* result, and the edges of the result are the edges before that step
\* without those into the removed term.
C20_OnlyEdgesIntoRootDropped ==
    RootTrimmedLast
    => /\ \A g \in Genes : OnlyAnnotatedToLast(g) => ~Has(term_dict, g)
       /\ EdgeSet(term_dict) = {e \in EdgeSet(BeforeLast) : e[2] # LastTerm}

C20_Witness ==
    /\ RootTrimmedLast
    /\ \E g \in Genes : OnlyAnnotatedToLast(g) /\ ~Has(term_dict, g)
    /\ \E g \in Genes : /\ LastTerm \in ParentsOf(BeforeLast, g)
                        /\ ParentsOf(term_dict, g) = ParentsOf(BeforeLast, g) \ {LastTerm}
                        /\ ParentsOf(term_dict, g) # {}

(***************************************************************************)
(* create_binary_matrix called once, for every depth table that gives each *)
(* of the IDs T1.. one depth in 0..MaxDepth, every dag over these IDs with *)
(* at most MaxMaskEdges edges (an ID without parents is a key with an      *)
(* empty list, or no key), and every two different levels.                 *)
(***************************************************************************)
Ids == {TermIds[i] : i \in 1..NumIds}

MaskAllEdges == {e \in Ids \X Ids : e[1] # e[2]}

RECURSIVE MaskEdgeSets(_)
MaskEdgeSets(n) ==
    IF n = 0 THEN {{}}
    ELSE LET P == MaskEdgeSets(n - 1)
         IN P \cup {E \cup {e} : E \in P, e \in MaskAllEdges}

MkMaskDAG(E, roots) ==
    LET kept == SelectSeq(SetToList(Ids, TRUE),
                    LAMBDA n : (\E q \in Ids : <<n, q>> \in E) \/ roots)
    IN [i \in DOMAIN kept |->
            [k |-> kept[i], v |-> SetToList({q \in Ids : <<kept[i], q>> \in E}, TRUE)]]

MkDepth(f) ==
    LET ids == SetToList(Ids, TRUE)
    IN [i \in DOMAIN ids |-> [ID |-> ids[i], depth |-> f[ids[i]]]]

MaskInit ==
    /\ fn = "create_binary_matrix" /\ pc = "call" /\ err = "none"
    /\ depth \in {MkDepth(f) : f \in [Ids -> 0..MaxDepth]}
    /\ dag \in {MkMaskDAG(E, roots) : E \in MaskEdgeSets(MaxMaskEdges),
                                      roots \in BOOLEAN}
    /\ childnum \in 0..MaxDepth
    /\ parentnum \in (0..MaxDepth) \ {childnum}
    /\ df = <<>>
    /\ TrimIdle /\ RevIdle /\ MoreIdle

\* create_binary_matrix returns
MaskReturn ==
    /\ fn = "create_binary_matrix" /\ pc = "call"
    /\ LET r == create_binary_matrix(depth, dag, childnum, parentnum)
       IN /\ r.err = "none"
          /\ df' = r.df
          /\ pc' = "done"
    /\ UNCHANGED <<fn, err, depth, dag, childnum, parentnum, trimVars, revVars,
                   moreVars>>

\* create_binary_matrix raises
MaskRaise ==
    /\ fn = "create_binary_matrix" /\ pc = "call"
    /\ LET r == create_binary_matrix(depth, dag, childnum, parentnum)
       IN /\ r.err # "none"
          /\ err' = r.err
          /\ pc' = "raised"
    /\ UNCHANGED <<fn, depth, dag, childnum, parentnum, df, trimVars, revVars,
                   moreVars>>

MaskNext == MaskReturn \/ MaskRaise

SpecMask == MaskInit /\ [][MaskNext]_vars

MaskCalled == fn = "create_binary_matrix" /\ pc \in {"done", "raised"}

ChildLevel == Range(LevelIDs(depth, childnum))
ParentLevel == Range(LevelIDs(depth, parentnum))

\* C7: the frame create_binary_matrix returns has one row per ID of the
\* child level and one column per ID of the parent level, and its entry for
\* a child c and a parent p is 1 iff p is in dag[c] (no parents when c is no
\* key), 0 otherwise.
C7_MaskShapeAndEntries ==
    MaskCalled
    => /\ pc = "done"
       /\ Range(df.index) = ChildLevel /\ Len(df.index) = Cardinality(ChildLevel)
       /\ Range(df.columns) = ParentLevel
       /\ Len(df.columns) = Cardinality(ParentLevel)
       /\ \A c \in ChildLevel, q \in ParentLevel :
             df.values[<<c, q>>] =
                IF Has(dag, c) /\ q \in Range(Get(dag, c)) THEN 1 ELSE 0

\* C8: when an ID of the child level is no key of dag, the call does not
\* fail and that ID's entries are all 0.
C8_AbsentKeyNoParents ==
    (MaskCalled /\ \E c \in ChildLevel : ~Has(dag, c))
    => /\ pc = "done"
       /\ \A c \in ChildLevel : ~Has(dag, c) =>
             \A e \in DOMAIN df.values : e[1] = c => df.values[e] = 0

\* C9: when the child level or the parent level has no ID, the call returns
\* a frame without rows or without columns; it does not raise.
C9_EmptyLevel ==
    (MaskCalled /\ (ChildLevel = {} \/ ParentLevel = {}))
    => /\ pc = "done" /\ err = "none"
       /\ (df.index = <<>> \/ df.columns = <<>>)

C9_Witness ==
    /\ fn = "create_binary_matrix" /\ pc = "done"
    /\ ChildLevel # {} /\ ParentLevel = {}
    /\ \E c \in ChildLevel : ~Has(dag, c)
    /\ df.index = <<>> /\ df.columns = <<>>

(***************************************************************************)
(* get_descendants called once, for every parent -> children mapping over  *)
(* the terms with at most MaxDescEdges edges, cycles and self-loops        *)
(* included, the children of a parent in ascending or descending order,    *)
(* and every start term.  The loop is followed for MaxVisits iterations.   *)
(***************************************************************************)
RECURSIVE SubsetsUpTo(_, _)
SubsetsUpTo(S, n) ==
    IF n = 0 THEN {{}}
    ELSE LET P == SubsetsUpTo(S, n - 1)
         IN P \cup {E \cup {e} : E \in P, e \in S}

\* the mapping with the edges E: a key for every node with an edge from it
MkGraph(E, up) ==
    LET kept == SelectSeq(SetToList(Terms, TRUE),
                    LAMBDA n : \E q \in Terms : <<n, q>> \in E)
    IN [i \in DOMAIN kept |->
            [k |-> kept[i], v |-> SetToList({q \in Terms : <<kept[i], q>> \in E}, up)]]

DescGraphs ==
    {MkGraph(E, up) : E \in SubsetsUpTo(Terms \X Terms, MaxDescEdges),
                      up \in BOOLEAN}

DescInit ==
    /\ fn = "get_descendants" /\ pc = "start" /\ err = "none"
    /\ gd_dag \in DescGraphs
    /\ gd_term \in Terms
    /\ descendants = <<>> /\ queue = <<>> /\ visits = <<>>
    /\ TrimIdle /\ RevIdle /\ MaskIdle /\ GenesIdle /\ PathIdle /\ CtorIdle
    /\ TrainIdle

descRest == <<trimVars, revVars, maskVars, genesVars, pathVars, ctorVars,
              trainVars>>

\* get_descendants, lines 31-35
DescStart ==
    /\ fn = "get_descendants" /\ pc = "start"
    /\ descendants' = get_descendants_init(gd_term).descendants
    /\ queue' = get_descendants_init(gd_term).queue
    /\ pc' = "loop"
    /\ UNCHANGED <<fn, err, gd_dag, gd_term, visits, descRest>>

\* get_descendants, lines 37-44: one iteration
DescVisit ==
    /\ fn = "get_descendants" /\ pc = "loop"
    /\ Len(queue) > 0
    /\ Len(visits) < MaxVisits
    /\ LET r == get_descendants_visit(gd_dag, descendants, queue)
       IN /\ descendants' = r.descendants
          /\ queue' = r.queue
    /\ visits' = Append(visits, Head(queue))
    /\ UNCHANGED <<fn, pc, err, gd_dag, gd_term, descRest>>

\* get_descendants, lines 37 and 46: the queue is empty
DescReturn ==
    /\ fn = "get_descendants" /\ pc = "loop"
    /\ ~(Len(queue) > 0)
    /\ pc' = "done"
    /\ UNCHANGED <<fn, err, gd_dag, gd_term, descendants, queue, visits, descRest>>

DescNext == DescStart \/ DescVisit \/ DescReturn

SpecDesc == DescInit /\ [][DescNext]_vars

\* n is reached from m by one edge or more
RECURSIVE ReachIn(_, _, _, _)
ReachIn(E, m, n, k) ==
    IF k = 0 THEN FALSE
    ELSE \E q \in Terms : <<m, q>> \in E /\ (q = n \/ ReachIn(E, q, n, k - 1))

Reaches(d, m, n) == ReachIn(EdgeSet(d), m, n, NumTerms)

\* a cycle can be reached from the term t
CycleFrom(d, t) ==
    \E n \in Terms : (n = t \/ Reaches(d, t, n)) /\ Reaches(d, n, n)

Acyclic(d) == \A n \in Terms : ~Reaches(d, n, n)

\* the number of directed paths from m to n in an acyclic mapping
RECURSIVE NumPaths(_, _, _)
RECURSIVE SumPaths(_, _, _)
SumPaths(d, cs, n) ==
    IF cs = <<>> THEN 0 ELSE NumPaths(d, Head(cs), n) + SumPaths(d, Tail(cs), n)
NumPaths(d, m, n) ==
    (IF m = n THEN 1 ELSE 0) + (IF Has(d, m) THEN SumPaths(d, Get(d, m), n) ELSE 0)

Count(s, x) == Cardinality({i \in DOMAIN s : s[i] = x})

\* the children of the nodes of a list, in the order of the list
RECURSIVE ChildrenOfAll(_, _)
ChildrenOfAll(d, s) ==
    IF s = <<>> THEN <<>>
    ELSE (IF Has(d, Head(s)) THEN Get(d, Head(s)) ELSE <<>>)
            \o ChildrenOfAll(d, Tail(s))

\* breadth-first order: the start, then the ends of the paths of length 1,
\* then those of length 2, ..., each level from the level before it
RECURSIVE LevelsFrom(_, _)
LevelsFrom(d, level) ==
    IF level = <<>> THEN <<>> ELSE level \o LevelsFrom(d, ChildrenOfAll(d, level))

DescDone == fn = "get_descendants" /\ pc = "done"

\* C11: for a term that is no key of the mapping, get_descendants returns
\* the one-element list [term].
C11_NoKeySingleton ==
    (DescDone /\ ~Has(gd_dag, gd_term)) => descendants = <<gd_term>>

C11_Witness ==
    /\ DescDone /\ ~Has(gd_dag, gd_term) /\ gd_dag # <<>>
    /\ \E i \in DOMAIN gd_dag : gd_term \in Range(gd_dag[i].v)
    /\ descendants = <<gd_term>>

\* C12: when a cycle can be reached from the start term, get_descendants
\* stops within its visit budget (here MaxVisits) and signals a cycle error:
\* once that many nodes are popped the call has raised.
C12_CycleSignalled ==
    (fn = "get_descendants" /\ CycleFrom(gd_dag, gd_term)
        /\ Len(visits) >= MaxVisits)
    => pc = "raised" /\ err = "CycleDetectedError"

\* C19: for an acyclic mapping (no edge twice), a node occurs in the
\* returned list as often as there are paths from the term to it, and the
\* list is in breadth-first order.
C19_OccurrencesArePaths ==
    (DescDone /\ Acyclic(gd_dag))
    => /\ \A n \in Terms : Count(descendants, n) = NumPaths(gd_dag, gd_term, n)
       /\ descendants = LevelsFrom(gd_dag, <<gd_term>>)

C19_Witness ==
    /\ DescDone /\ Acyclic(gd_dag)
    /\ \E n \in Terms : Count(descendants, n) = 2 /\ NumPaths(gd_dag, gd_term, n) = 2

(***************************************************************************)
(* reverse_graph applied once and twice to every mapping built by at most  *)
(* MaxGraphEdges insertions (g[v] = [] or g[v].append(e)) over the terms.  *)
(***************************************************************************)
AddKey(g, v) == IF Has(g, v) THEN g ELSE Put(g, v, <<>>)

AddEdge(g, v, e) == Put(AddKey(g, v), v, Append(Get(AddKey(g, v), v), e))

RECURSIVE Graphs(_)
Graphs(n) ==
    IF n = 0 THEN {<<>>}
    ELSE LET P == Graphs(n - 1)
         IN P \cup {AddKey(g, v) : g \in P, v \in Terms}
              \cup {AddEdge(g, v, e) : g \in P, v \in Terms, e \in Terms}

RevInit ==
    /\ fn = "reverse_graph" /\ pc = "call" /\ err = "none"
    /\ graph \in Graphs(MaxGraphEdges)
    /\ reverse = <<>> /\ reverse2 = <<>>
    /\ TrimIdle /\ MaskIdle /\ MoreIdle

\* reverse = reverse_graph(graph)
RevCall ==
    /\ fn = "reverse_graph" /\ pc = "call"
    /\ reverse' = reverse_graph(graph)
    /\ pc' = "once"
    /\ UNCHANGED <<fn, err, graph, reverse2, trimVars, maskVars,
                   moreVars>>

\* reverse2 = reverse_graph(reverse)
RevAgain ==
    /\ fn = "reverse_graph" /\ pc = "once"
    /\ reverse2' = reverse_graph(reverse)
    /\ pc' = "done"
    /\ UNCHANGED <<fn, err, graph, reverse, trimVars, maskVars,
                   moreVars>>

RevNext == RevCall \/ RevAgain

SpecRev == RevInit /\ [][RevNext]_vars

\* C10: for a mapping whose lists hold no target twice, reversing twice gives
\* back exactly the (node, target) edges of the mapping, no edge twice, and a
\* key whose list is empty is not a key of the result.
C10_ReverseTwice ==
    (pc = "done" /\ fn = "reverse_graph"
        /\ \A i \in DOMAIN graph : NoDupList(graph[i].v))
    => /\ EdgeSet(reverse2) = EdgeSet(graph)
       /\ \A i \in DOMAIN reverse2 : NoDupList(reverse2[i].v)
       /\ \A i \in DOMAIN graph : graph[i].v = <<>> => ~Has(reverse2, graph[i].k)

C10_Witness ==
    /\ pc = "done" /\ fn = "reverse_graph"
    /\ \A i \in DOMAIN graph : NoDupList(graph[i].v)
    /\ \E i \in DOMAIN graph : graph[i].v = <<>>
    /\ \E i \in DOMAIN reverse : Len(reverse[i].v) >= 2
    /\ Cardinality(EdgeSet(graph)) >= 2

(***************************************************************************)
(* get_descendant_genes called once, for every term -> genes mapping built *)
(* by at most MaxGeneEdges annotations (the keys in the order in which     *)
(* the terms were first annotated) and every list of at most MaxDescLen    *)
(* terms.                                                                  *)
(***************************************************************************)
RECURSIVE GeneDicts(_)
GeneDicts(n) ==
    IF n = 0 THEN {<<>>}
    ELSE LET P == GeneDicts(n - 1)
         IN P \cup {AddEdge(g, v, e) : g \in P, v \in Terms, e \in Genes}

RECURSIVE SeqsUpTo(_, _)
SeqsUpTo(S, n) ==
    IF n = 0 THEN {<<>>}
    ELSE LET P == SeqsUpTo(S, n - 1)
         IN P \cup {Append(q, x) : q \in P, x \in S}

GenesInit ==
    /\ fn = "get_descendant_genes" /\ pc = "call" /\ err = "none"
    /\ dg_dag \in GeneDicts(MaxGeneEdges)
    /\ dg_descendants \in SeqsUpTo(Terms, MaxDescLen)
    /\ genes = <<>>
    /\ TrimIdle /\ RevIdle /\ MaskIdle /\ DescIdle /\ PathIdle /\ CtorIdle
    /\ TrainIdle

\* get_descendant_genes, lines 50-55
GenesCall ==
    /\ fn = "get_descendant_genes" /\ pc = "call"
    /\ genes' = get_descendant_genes(dg_dag, dg_descendants)
    /\ pc' = "done"
    /\ UNCHANGED <<fn, err, dg_dag, dg_descendants, trimVars, revVars, maskVars,
                   descVars, pathVars, ctorVars, trainVars>>

GenesNext == GenesCall

SpecGenes == GenesInit /\ [][GenesNext]_vars

\* the gene lists of the terms of a list that are keys, each term at its
\* first place in the list
RECURSIVE GenesInListOrder(_, _, _)
GenesInListOrder(d, desc, seen) ==
    IF desc = <<>> THEN <<>>
    ELSE (IF Head(desc) \notin seen /\ Has(d, Head(desc))
          THEN Get(d, Head(desc)) ELSE <<>>)
            \o GenesInListOrder(d, Tail(desc), seen \cup {Head(desc)})

\* C13: get_descendant_genes returns the gene lists of the descendant terms
\* that are keys of the mapping, concatenated in the order in which the
\* terms appear in the descendants list.
C13_OrderOfDescendants ==
    (fn = "get_descendant_genes" /\ pc = "done")
    => genes = GenesInListOrder(dg_dag, dg_descendants, {})

(***************************************************************************)
(* find_all_paths called once, for every mapping over the terms with at    *)
(* most MaxDescEdges edges (cycles and self-loops included) and every      *)
(* start and end.                                                          *)
(***************************************************************************)
PathInit ==
    /\ fn = "find_all_paths" /\ pc = "call" /\ err = "none"
    /\ fp_graph \in DescGraphs
    /\ start \in Terms /\ end \in Terms
    /\ paths = <<>>
    /\ TrimIdle /\ RevIdle /\ MaskIdle /\ DescIdle /\ GenesIdle /\ CtorIdle
    /\ TrainIdle

\* find_all_paths(graph, start, end), lines 233-245
PathCall ==
    /\ fn = "find_all_paths" /\ pc = "call"
    /\ paths' = find_all_paths(fp_graph, start, end, <<>>)
    /\ pc' = "done"
    /\ UNCHANGED <<fn, err, fp_graph, start, end, trimVars, revVars, maskVars,
                   descVars, genesVars, ctorVars, trainVars>>

PathNext == PathCall

SpecPath == PathInit /\ [][PathNext]_vars

PathDone == fn = "find_all_paths" /\ pc = "done"

\* the simple directed paths of a mapping from s to e
SimplePaths(g, s, e) ==
    {q \in UNION {[1..n -> Terms] : n \in 1..NumTerms} :
        /\ q[1] = s /\ q[Len(q)] = e
        /\ NoDupList(q)
        /\ \A i \in 1..(Len(q) - 1) : <<q[i], q[i + 1]>> \in EdgeSet(g)}

\* C14: find_all_paths(graph, A, A) returns [[A]], whether A is a key of the
\* graph or not, on a cycle or not.
C14_StartIsEnd == (PathDone /\ start = end) => paths = << <<start>> >>

C14_Witness ==
    /\ PathDone /\ start = end /\ paths = << <<start>> >>
    /\ ~Has(fp_graph, start)
    /\ \E i \in DOMAIN fp_graph : start \in Range(fp_graph[i].v)

\* C14, the other case: A lies on a cycle
C14_WitnessCycle ==
    /\ PathDone /\ start = end /\ paths = << <<start>> >>
    /\ Reaches(fp_graph, start, start)

\* C15: find_all_paths returns exactly the simple directed paths from start
\* to end, each once; nothing when start is not end and has no edge.
C15_ExactlySimplePaths ==
    PathDone
    => /\ Range(paths) = SimplePaths(fp_graph, start, end)
       /\ NoDupList(paths)
       /\ (start # end /\ ~Has(fp_graph, start)) => paths = <<>>

C15_Witness ==
    /\ PathDone /\ start # end /\ Len(paths) >= 2
    /\ Range(paths) = SimplePaths(fp_graph, start, end)

\* find_all_paths, with the call that was started carried out
SpecPathLive == PathInit /\ [][PathNext]_vars /\ WF_vars(PathCall)

\* the nodes of a mapping: its keys and what their lists hold
GraphNodes(g) == Keys(g) \cup UNION {Range(g[i].v) : i \in DOMAIN g}

\* C22, as stated: no path find_all_paths returns is longer than the number
\* of distinct nodes of the graph.
C22_PathsWithinGraphNodes ==
    PathDone
    => \A i \in DOMAIN paths : Len(paths[i]) <= Cardinality(GraphNodes(fp_graph))

\* C22, amended: find_all_paths returns for every graph, with cycles or
\* without, and no path it returns is longer than the number of distinct
\* nodes of the graph and start taken together.
C22_TerminatesWithShortPaths ==
    /\ <>PathDone
    /\ [](PathDone
          => \A i \in DOMAIN paths :
                Len(paths[i]) <= Cardinality(GraphNodes(fp_graph) \cup {start}))

\* a path through every node of a graph with a cycle
C22_Witness ==
    /\ PathDone /\ ~Acyclic(fp_graph)
    /\ \E i \in DOMAIN paths : Len(paths[i]) = Cardinality(GraphNodes(fp_graph))
    /\ Cardinality(GraphNodes(fp_graph)) = NumTerms

(***************************************************************************)
(* The constructors of OntoVAE and OntoEncVAE, up to the assignment of     *)
(* self.genes, for every ontology object that holds at most MaxVariants    *)
(* trimmed variants and every pair of thresholds in 1..NumThresh.  attrs   *)
(* lists the attributes of self in the order in which they were set.       *)
(***************************************************************************)
Thresh == 1..NumThresh

\* str(top_thresh) + '_' + str(bottom_thresh)
VariantKey(top, bottom) == ToString(top) \o "_" \o ToString(bottom)

\* OntoVAE.__init__, lines 47-53
OntoVAE_init(keys, top, bottom) ==
    IF VariantKey(top, bottom) \notin keys
    THEN [attrs |-> <<>>, err |-> "ValueError"]
    ELSE [attrs |-> <<"ontology", "top", "bottom", "genes">>, err |-> "none"]

\* OntoEncVAE.__init__, lines 500-503: no test of the key; the lookup of
\* line 503 raises after the three assignments before it
OntoEncVAE_init(keys, top, bottom) ==
    IF VariantKey(top, bottom) \notin keys
    THEN [attrs |-> <<"ontology", "top", "bottom">>, err |-> "KeyError"]
    ELSE [attrs |-> <<"ontology", "top", "bottom", "genes">>, err |-> "none"]

CtorInit ==
    /\ fn = "__init__" /\ pc = "call" /\ err = "none"
    /\ cls \in {"OntoVAE", "OntoEncVAE"}
    /\ ontobj_keys \in SubsetsUpTo({VariantKey(t, b) : t \in Thresh, b \in Thresh},
                                  MaxVariants)
    /\ top_thresh \in Thresh /\ bottom_thresh \in Thresh
    /\ attrs = <<>>
    /\ TrimIdle /\ RevIdle /\ MaskIdle /\ DescIdle /\ GenesIdle /\ PathIdle
    /\ TrainIdle

OntoVAE_new ==
    /\ fn = "__init__" /\ pc = "call" /\ cls = "OntoVAE"
    /\ LET r == OntoVAE_init(ontobj_keys, top_thresh, bottom_thresh)
       IN /\ attrs' = r.attrs
          /\ err' = r.err
          /\ pc' = IF r.err = "none" THEN "done" ELSE "raised"
    /\ UNCHANGED <<fn, cls, ontobj_keys, top_thresh, bottom_thresh, trimVars,
                   revVars, maskVars, descVars, genesVars, pathVars, trainVars>>

OntoEncVAE_new ==
    /\ fn = "__init__" /\ pc = "call" /\ cls = "OntoEncVAE"
    /\ LET r == OntoEncVAE_init(ontobj_keys, top_thresh, bottom_thresh)
       IN /\ attrs' = r.attrs
          /\ err' = r.err
          /\ pc' = IF r.err = "none" THEN "done" ELSE "raised"
    /\ UNCHANGED <<fn, cls, ontobj_keys, top_thresh, bottom_thresh, trimVars,
                   revVars, maskVars, descVars, genesVars, pathVars, trainVars>>

CtorNext == OntoVAE_new \/ OntoEncVAE_new

SpecCtor == CtorInit /\ [][CtorNext]_vars

\* C18: a constructor of OntoVAE or OntoEncVAE given thresholds whose key is
\* not among the variants of the ontology object raises an error as its
\* first check, before any attribute of the model is set.
C18_InvalidThresholdFirst ==
    (fn = "__init__" /\ pc # "call"
        /\ VariantKey(top_thresh, bottom_thresh) \notin ontobj_keys)
    => pc = "raised" /\ err # "none" /\ attrs = <<>>

(***************************************************************************)
(* Further properties of trim_DAG_bottom and trim_DAG_top, checked under   *)
(* SpecTrim.                                                               *)
(***************************************************************************)
TopDone == fn = "trim_DAG_top" /\ pc = "done"

BottomDone == fn = "trim_DAG_bottom" /\ pc = "done"

Removed == Range(trim_terms)

\* C21: after trim_DAG_top removes a term, each of its child terms has in
\* the returned DAG exactly the parents it had that were not removed, and
\* is not a key when none is left; no child gets a replacement edge.
C21_ChildrenKeepOtherParents ==
    TopDone
    => \A t \in Removed : \A c \in ChildTerms(DAG, t) :
          LET keep == ParentsOf(DAG, c) \ Removed
          IN /\ ParentsOf(term_dict, c) = keep
             /\ Has(term_dict, c) <=> keep # {}

C21_Witness ==
    /\ TopDone /\ Len(trim_terms) = 1
    /\ \E c1, c2 \in ChildTerms(DAG, trim_terms[1]) :
          /\ ParentsOf(DAG, c1) = {trim_terms[1]} /\ ~Has(term_dict, c1)
          /\ ParentsOf(DAG, c2) # {trim_terms[1]}
          /\ ParentsOf(term_dict, c2) = ParentsOf(DAG, c2) \ {trim_terms[1]}

\* C23: when trim_DAG_bottom removes a term with child terms, each child
\* that stays loses its edge to the term and gains none: it has exactly the
\* parents it had that were not removed, and is not a key when none is
\* left; the genes of the term are what moves to its parents.
C23_ChildrenNotMovedUp ==
    BottomDone
    => \A t \in Removed :
          /\ \A c \in ChildTerms(DAG, t) \ Removed :
                LET keep == ParentsOf(DAG, c) \ Removed
                IN /\ ParentsOf(term_dict, c) = keep
                   /\ Has(term_dict, c) <=> keep # {}
          /\ \A g \in GenesOf(DAG, t) :
                ParentsOf(DAG, t) \ Removed \subseteq ParentsOf(term_dict, g)

\* the removed term has a parent, genes, and a child with no other parent
C23_Witness ==
    /\ BottomDone /\ Len(trim_terms) = 1
    /\ ParentsOf(DAG, trim_terms[1]) # {}
    /\ GenesOf(DAG, trim_terms[1]) # {}
    /\ \E c \in ChildTerms(DAG, trim_terms[1]) :
          ParentsOf(DAG, c) = {trim_terms[1]} /\ ~Has(term_dict, c)

\* C23, the other case: a child that has another parent keeps just that one
C23_WitnessOtherParent ==
    /\ BottomDone /\ Len(trim_terms) = 1
    /\ ParentsOf(DAG, trim_terms[1]) # {}
    /\ \E c \in ChildTerms(DAG, trim_terms[1]) :
          /\ ParentsOf(DAG, c) # {trim_terms[1]}
          /\ ParentsOf(term_dict, c) = ParentsOf(DAG, c) \ {trim_terms[1]}

\* C24: when the removal list of trim_DAG_bottom has a term C before its
\* parent P and P has a parent, each gene of C has in the returned DAG every
\* parent of P that was not removed among its parents, and neither C nor P
\* is a key or a parent in it.
C24_GenesCarriedThroughParent ==
    BottomDone
    => \A i, j \in DOMAIN trim_terms :
          (/\ i < j
           /\ trim_terms[j] \in ParentsOf(DAG, trim_terms[i])
           /\ ParentsOf(DAG, trim_terms[j]) # {})
          => /\ \A g \in GenesOf(DAG, trim_terms[i]) :
                   ParentsOf(DAG, trim_terms[j]) \ Removed
                       \subseteq ParentsOf(term_dict, g)
             /\ trim_terms[i] \notin GraphNodes(term_dict)
             /\ trim_terms[j] \notin GraphNodes(term_dict)

\* C before P, P with a parent that has genes of its own, C with a gene
C24_Witness ==
    /\ BottomDone /\ Len(trim_terms) = 2
    /\ trim_terms[2] \in ParentsOf(DAG, trim_terms[1])
    /\ \E q \in ParentsOf(DAG, trim_terms[2]) :
          /\ GenesOf(DAG, q) # {}
          /\ \E g \in GenesOf(DAG, trim_terms[1]) \ GenesOf(DAG, q) :
                q \in ParentsOf(term_dict, g)

\* C25: trim_DAG_top depends on the set of the terms of its removal list
\* only: whatever their order and however often a term is repeated, the
\* call returns, and returns what it returns for the terms listed once in
\* ascending order.
C25_TopDependsOnSetOnly ==
    /\ fn = "trim_DAG_top" => pc # "raised"
    /\ TopDone
       => LET r == trim_DAG_top(DAG, all_terms, SetToList(Removed, TRUE))
          IN r.err = "none" /\ r.term_dict = term_dict

\* a list that repeats a term, and a list in descending order
C25_Witness ==
    /\ TopDone /\ Len(trim_terms) = 2 /\ trim_terms[1] = trim_terms[2]
    /\ ChildTerms(DAG, trim_terms[1]) # {} /\ GenesOf(DAG, trim_terms[1]) # {}
    /\ term_dict # <<>>

C25_WitnessReordered ==
    /\ TopDone /\ Len(trim_terms) = 2
    /\ trim_terms # SetToList(Removed, TRUE)
    /\ \A i \in DOMAIN trim_terms : ChildTerms(DAG, trim_terms[i]) # {}
    /\ term_dict # <<>>

\* C26: every key of a DAG that trim_DAG_bottom or trim_DAG_top returns has
\* a non-empty parent list, and with an empty removal list the DAG returned
\* has exactly the edges of the base DAG.
C26_KeysHaveParents ==
    (Trimming /\ pc = "done")
    => /\ \A i \in DOMAIN term_dict : term_dict[i].v # <<>>
       /\ trim_terms = <<>> => EdgeSet(term_dict) = EdgeSet(DAG)

\* a base DAG with a root that is a key, returned for an empty removal list
C26_Witness ==
    /\ Trimming /\ pc = "done" /\ trim_terms = <<>>
    /\ \E i \in DOMAIN DAG : DAG[i].v = <<>>
    /\ \E i \in DOMAIN DAG : DAG[i].k \in Terms /\ DAG[i].v # <<>>
    /\ \E i \in DOMAIN DAG : DAG[i].k \in Genes
    /\ term_dict # <<>>

\* C26, the other case: a DAG returned after terms were removed
C26_WitnessTrimmed ==
    /\ BottomDone /\ Len(trim_terms) = 2 /\ term_dict # <<>>
    /\ \E i \in DOMAIN DAG : DAG[i].v = <<>>

(***************************************************************************)
(* train_model of OntoVAE, OntoEncVAE and VAE: the loop over the epochs,   *)
(* from val_loss_min = float('inf') on.  A validation loss is a float: one *)
(* of the finite values 1..NumLoss, infinity, or NaN (val_round divides a  *)
(* sum of loss.item() values).  What train_round does to the weights is    *)
(* not followed; a checkpoint is known by its 'epoch' and 'loss'.          *)
(***************************************************************************)
Inf == NumLoss + 1

NaN == NumLoss + 2

Losses == (1..NumLoss) \cup {Inf, NaN}

\* a < b on floats: false when either is NaN
Less(a, b) == a # NaN /\ b # NaN /\ a < b

\* a plausible slip: the test of line 268 is <=, a tie saves again
train_model_epoch_on_ties(vmin, ckpt, sv, e, loss) ==
    IF loss # NaN /\ vmin # NaN /\ loss <= vmin
    THEN [val_loss_min |-> loss,
          checkpoint |-> <<[epoch |-> e, loss |-> loss]>>,
          saves |-> Append(sv, e)]
    ELSE [val_loss_min |-> vmin, checkpoint |-> ckpt, saves |-> sv]

\* lines 268-276 for epoch e, whose val_round returned loss
train_model_epoch(vmin, ckpt, sv, e, loss) ==
    IF Less(loss, vmin)
    THEN [val_loss_min |-> loss,
          checkpoint |-> <<[epoch |-> e, loss |-> loss]>>,
          saves |-> Append(sv, e)]
    ELSE [val_loss_min |-> vmin, checkpoint |-> ckpt, saves |-> sv]

TrainInit ==
    /\ fn = "train_model" /\ pc = "loop" /\ err = "none"
    /\ model_cls \in {"OntoVAE", "OntoEncVAE", "VAE"}
    /\ epochs \in 0..MaxEpochs
    /\ epoch = 0
    /\ val_loss_min = Inf
    /\ losses = <<>> /\ saves = <<>> /\ checkpoint = <<>>
    /\ TrimIdle /\ RevIdle /\ MaskIdle /\ DescIdle /\ GenesIdle /\ PathIdle
    /\ CtorIdle

\* one iteration of for epoch in range(epochs): lines 260-279 of OntoVAE,
\* and the same text at lines 707-726 (OntoEncVAE) and 1127-1146 (VAE)
TrainEpoch ==
    /\ fn = "train_model" /\ pc = "loop"
    /\ epoch < epochs
    /\ \E val_epoch_loss \in Losses :
          LET r == train_model_epoch(val_loss_min, checkpoint, saves, epoch,
                                     val_epoch_loss)
          IN /\ losses' = Append(losses, val_epoch_loss)
             /\ val_loss_min' = r.val_loss_min
             /\ checkpoint' = r.checkpoint
             /\ saves' = r.saves
    /\ epoch' = epoch + 1
    /\ UNCHANGED <<fn, pc, err, model_cls, epochs, trimVars, revVars, maskVars,
                   descVars, genesVars, pathVars, ctorVars>>

\* range(epochs) is used up
TrainReturn ==
    /\ fn = "train_model" /\ pc = "loop"
    /\ epoch = epochs
    /\ pc' = "done"
    /\ UNCHANGED <<fn, err, trainVars, trimVars, revVars, maskVars, descVars,
                   genesVars, pathVars, ctorVars>>

TrainNext == TrainEpoch \/ TrainReturn

SpecTrain == TrainInit /\ [][TrainNext]_vars

\* the validation losses of the epochs before epoch e (epochs count from 0)
Before(e) == {losses[j] : j \in 1..e}

LossOf(e) == losses[e + 1]

Completed == 0..(epoch - 1)

Least(S) == CHOOSE x \in S : \A y \in S : x <= y

\* C27, as stated: after every epoch val_loss_min is the smallest validation
\* loss so far, a checkpoint was written in exactly the epochs whose loss is
\* strictly below that of every earlier epoch, and the checkpoint on disk
\* holds the earliest epoch with the lowest loss.
C27_CheckpointIsBest ==
    (fn = "train_model" /\ epoch > 0)
    => /\ val_loss_min \in Range(losses)
       /\ \A e \in Completed : ~Less(LossOf(e), val_loss_min)
       /\ Range(saves) = {e \in Completed :
                             \A l \in Before(e) : Less(LossOf(e), l)}
       /\ checkpoint # <<>>
       /\ checkpoint[1].loss = val_loss_min
       /\ checkpoint[1].epoch = Least({e \in Completed : LossOf(e) = val_loss_min})

\* the epochs in which a checkpoint is due: the loss is a number below
\* infinity and strictly below every earlier loss that is a number
Due == {e \in Completed :
           /\ Less(LossOf(e), Inf)
           /\ \A l \in Before(e) : l = NaN \/ Less(LossOf(e), l)}

\* C27, amended: val_loss_min is the smallest of infinity and the losses so
\* far that are numbers; a checkpoint was written in exactly the epochs that
\* are due; the file is empty when none was, and holds the earliest epoch
\* with the lowest loss otherwise.
C27_CheckpointIsBestNumber ==
    fn = "train_model"
    => /\ val_loss_min = Least({Inf} \cup (Range(losses) \ {NaN}))
       /\ Range(saves) = Due
       /\ \A i, j \in DOMAIN saves : i < j => saves[i] < saves[j]
       /\ IF Due = {} THEN checkpoint = <<>>
          ELSE checkpoint =
                 <<[epoch |-> Least({e \in Completed : LossOf(e) = val_loss_min}),
                    loss |-> val_loss_min]>>

\* two checkpoints written, then the lowest loss met again
C27_Witness ==
    /\ fn = "train_model" /\ epoch >= 3 /\ Len(saves) = 2
    /\ LossOf(epoch - 1) = val_loss_min
    /\ checkpoint = <<[epoch |-> epoch - 2, loss |-> val_loss_min]>>

====
